---------------------------- MODULE Spec2Model ----------------------------
(***************************************************************************)
(* The speakc front end: the lexer of src/speakc/lex.go, run as a          *)
(* goroutine that hands its items over an unbuffered channel, and the      *)
(* recursive-descent parser of src/speakc/parse.go that pulls them.        *)
(*                                                                         *)
(* Text is a sequence of bytes (numbers 0..255), positions are 0-based     *)
(* as in Go.  The text is fixed before NewLexer is called, but the lexer   *)
(* reads it only through next(); the model decides the text as it is       *)
(* read: when the running state function reads past the part decided so    *)
(* far, the action Reveal appends one more chunk or closes the text.       *)
(* Every text of at most MaxChunks chunks is enumerated this way, and no   *)
(* step of the program depends on a byte it has not read.                  *)
(***************************************************************************)
EXTENDS Integers, Sequences, FiniteSets, TLC

VARIABLES
    l,          \* the Lexer struct: input, state, pos, start, width
    closed,     \* TRUE once the end of the text has been decided
    revealed,   \* number of chunks l.input is made of
    profile,    \* the chunks the text is made of, and how many at most
    items,      \* the unbuffered channel l.items: <<>> or <<item being sent>>
    lwait,      \* where the lexer goroutine resumes once its send completes
    delivered,  \* the items received from the channel so far, in order
    parser,     \* the Parser struct and where ParseText stands
    parser0,    \* the Parser struct as the call of ParseText found it
    driver      \* the token dumping main of src/cmd/speakc: "loop" or "done";
                \* the main of src/speakc: the index of the file it parses

vars ==
    <<l, closed, revealed, profile, items, lwait, delivered, parser, parser0,
      driver>>

---------------------------------------------------------------------------
(* Bounds of the model. *)

MaxChunks == 5
MaxDeclChunks == 9
MaxChoiceChunks == 10
MaxTypeChunks == 7
MaxLexChunks == 3
MaxLines == 4
MaxDeclLines == 3
MaxFileLines == 2
MaxFiles == 2
MaxErrors == 2

---------------------------------------------------------------------------
(* Item kinds, lex.go:19-50 (iota). *)

ItemError == 0
ItemIdentifier == 1
ItemNumber == 2
ItemEol == 3
ItemEof == 4
ItemLeftBracket == 5
ItemRightBracket == 6
ItemDot == 7
ItemColon == 8
ItemChoice == 9
ItemEnd == 10
ItemEnum == 11
ItemMessage == 12
ItemPackage == 13
ItemType == 14
ItemBasicTypeBegin == 15
ItemBool == 16
ItemByte == 17
ItemInt8 == 18
ItemInt16 == 19
ItemInt32 == 20
ItemInt64 == 21
ItemUint8 == 22
ItemUint16 == 23
ItemUint32 == 24
ItemUint64 == 25
ItemFloat32 == 26
ItemFloat64 == 27
ItemString == 28
ItemBasicTypeEnd == 29

\* strToItemKind[s]; a missing key yields the zero value, which is ItemError.
strToItemKind(s) ==
    CASE s = <<99, 104, 111, 105, 99, 101>> -> ItemChoice            \* "choice"
      [] s = <<101, 110, 100>> -> ItemEnd                            \* "end"
      [] s = <<101, 110, 117, 109>> -> ItemEnum                      \* "enum"
      [] s = <<109, 101, 115, 115, 97, 103, 101>> -> ItemMessage     \* "message"
      [] s = <<112, 97, 99, 107, 97, 103, 101>> -> ItemPackage       \* "package"
      [] s = <<116, 121, 112, 101>> -> ItemType                      \* "type"
      [] s = <<98, 111, 111, 108>> -> ItemBool                       \* "bool"
      [] s = <<98, 121, 116, 101>> -> ItemByte                       \* "byte"
      [] s = <<105, 110, 116, 56>> -> ItemInt8                       \* "int8"
      [] s = <<105, 110, 116, 49, 54>> -> ItemInt16                  \* "int16"
      [] s = <<105, 110, 116, 51, 50>> -> ItemInt32                  \* "int32"
      [] s = <<105, 110, 116, 54, 52>> -> ItemInt64                  \* "int64"
      [] s = <<117, 105, 110, 116, 56>> -> ItemUint8                 \* "uint8"
      [] s = <<117, 105, 110, 116, 49, 54>> -> ItemUint16            \* "uint16"
      [] s = <<117, 105, 110, 116, 51, 50>> -> ItemUint32            \* "uint32"
      [] s = <<117, 105, 110, 116, 54, 52>> -> ItemUint64            \* "uint64"
      [] s = <<102, 108, 111, 97, 116, 51, 50>> -> ItemFloat32       \* "float32"
      [] s = <<102, 108, 111, 97, 116, 54, 52>> -> ItemFloat64       \* "float64"
      [] s = <<115, 116, 114, 105, 110, 103>> -> ItemString          \* "string"
      [] OTHER -> ItemError

\* The zero Item of Go: Item{}.
ZeroItem == [Kind |-> ItemError, Value |-> <<>>, Pos |-> 0]

---------------------------------------------------------------------------
(* Runes and their classes, lex.go:134 and 393-416. *)

eof == -1

\* utf8.RuneError, returned with width 1 for a byte that starts no encoding.
RuneError == 65533

isSpace(r) == r = 32 \/ r = 9                       \* ' ', '\t'

isEol(r) == r = 13 \/ r = 10                        \* '\r', '\n'

isDigit(r) == 48 <= r /\ r <= 57                    \* '0'..'9'

\* Mutant of isLetter: the letters above U+007F are letters too.
isLetter_unicode(r) ==
    (65 <= r /\ r <= 90) \/ (97 <= r /\ r <= 122) \/ (192 <= r /\ r <= 591)

isLetter(r) == (65 <= r /\ r <= 90) \/ (97 <= r /\ r <= 122)

isAlphaNumeric(r) == isLetter(r) \/ isDigit(r)

\* Byte i (0-based) of the string s.
At(s, i) == s[i + 1]

\* s[from:to]
Slice(s, from, to) == SubSeq(s, from + 1, to)

\* utf8.DecodeRuneInString(input[pos:]) for one and two byte encodings (the
\* texts of the model hold no byte above 0xDF): <<rune, width>>.
DecodeRune(input, pos) ==
    LET b0 == At(input, pos)
    IN  IF b0 < 128 THEN <<b0, 1>>
        ELSE IF /\ 194 <= b0 /\ b0 <= 223
                /\ pos + 1 < Len(input)
                /\ 128 <= At(input, pos + 1) /\ At(input, pos + 1) <= 191
             THEN <<(b0 - 192) * 64 + (At(input, pos + 1) - 128), 2>>
             ELSE <<RuneError, 1>>

---------------------------------------------------------------------------
(* The Lexer's methods, lex.go:148-207.  Each takes the Lexer and returns  *)
(* the Lexer after the call (with the result r where there is one).        *)
(* starved marks a run that read past the decided part of the text: it is  *)
(* redone once Reveal has decided more.                                    *)

NewLexerStruct(input) ==
    [input |-> input, state |-> "lexRoot", pos |-> 0, start |-> 0, width |-> 0,
     starved |-> FALSE]

next(lx) ==
    IF lx.pos >= Len(lx.input)
    THEN [l |-> [lx EXCEPT !.width = 0, !.starved = lx.starved \/ ~closed],
          r |-> eof]
    ELSE LET d == DecodeRune(lx.input, lx.pos)
         IN  [l |-> [lx EXCEPT !.width = d[2], !.pos = lx.pos + d[2],
                               !.starved = lx.starved \/
                                   (~closed /\ At(lx.input, lx.pos) >= 128
                                            /\ lx.pos + 1 >= Len(lx.input))],
              r |-> d[1]]

backup(lx) == [lx EXCEPT !.pos = lx.pos - lx.width]

peek(lx) ==
    LET n == next(lx)
    IN  [l |-> backup(n.l), r |-> n.r]

ignore(lx) == [lx EXCEPT !.start = lx.pos]

acceptStr(lx) == Slice(lx.input, lx.start, lx.pos)

acceptLen(lx) == lx.pos - lx.start

\* for strings.IndexRune(valid, l.next()) >= 0 {}; l.backup()
RECURSIVE acceptRun(_, _)
acceptRun(lx, valid) ==
    LET n == next(lx)
    IN  IF n.r \in valid THEN acceptRun(n.l, valid) ELSE backup(n.l)

\* What a state function leaves behind: the Lexer, the item it is sending on
\* l.items (<<>> when it returned without sending), whether the send is
\* emit's (which then sets start = pos) and the state it returns.
Return(lx, state) ==
    [l |-> lx, send |-> <<>>, emit |-> FALSE, next |-> state]

\* Mutant of emit: the item records where it ends.
emit_posAtEnd(lx, kind, state) ==
    [l |-> lx,
     send |-> <<[Kind |-> kind, Value |-> acceptStr(lx), Pos |-> lx.pos]>>,
     emit |-> TRUE, next |-> state]

\* l.emit(kind), then returning state (or, in lexRoot, looping on).
emit(lx, kind, state) ==
    [l |-> lx,
     send |-> <<[Kind |-> kind, Value |-> acceptStr(lx), Pos |-> lx.start]>>,
     emit |-> TRUE, next |-> state]

\* Mutant of errorf: the item records where the scan stopped.
errorf_posAtEnd(lx, format, arg) ==
    [l |-> lx,
     send |-> <<[Kind |-> ItemError, Value |-> <<format, arg>>, Pos |-> lx.pos]>>,
     emit |-> FALSE, next |-> "nil"]

\* Mutant of errorf: the scan goes on after the error item.
errorf_goesOn(lx, format, arg) ==
    [l |-> lx,
     send |-> <<[Kind |-> ItemError, Value |-> <<format, arg>>, Pos |-> lx.start]>>,
     emit |-> FALSE, next |-> "lexRoot"]

\* l.errorf(format, arg): the item's value is the formatted message, kept
\* as the pair of the format and its argument.
errorf(lx, format, arg) ==
    [l |-> lx,
     send |-> <<[Kind |-> ItemError, Value |-> <<format, arg>>, Pos |-> lx.start]>>,
     emit |-> FALSE, next |-> "nil"]

---------------------------------------------------------------------------
(* The state functions, lex.go:283-391. *)

lexRoot(lx) ==
    LET n  == next(lx)
        r  == n.r
        \* the second operand of r == '/' && l.peek() == '/'
        pk == peek(n.l)
        l1 == IF r = 47 THEN pk.l ELSE n.l
    IN  CASE r = eof -> emit(n.l, ItemEof, "nil")
          [] r = 47 /\ pk.r = 47 -> Return(next(pk.l).l, "lexComment")
          [] isEol(r) -> Return(l1, "lexEol")
          [] isSpace(r) -> Return(l1, "lexSpace")
          [] r = 91 -> emit(l1, ItemLeftBracket, "lexRoot")       \* '['
          [] r = 93 -> emit(l1, ItemRightBracket, "lexRoot")      \* ']'
          [] r = 46 -> emit(l1, ItemDot, "lexRoot")               \* '.'
          [] r = 58 -> emit(l1, ItemColon, "lexRoot")             \* ':'
          [] isLetter(r) -> Return(l1, "lexIdentifier")
          [] isDigit(r) -> Return(l1, "lexNumber")
          [] OTHER -> errorf(l1, "unrecognized character: %#U", r)

RECURSIVE lexSpaceLoop(_)
lexSpaceLoop(lx) ==
    LET p == peek(lx)
    IN  IF isSpace(p.r) THEN lexSpaceLoop(next(p.l).l) ELSE p.l

lexSpace(lx) == Return(ignore(lexSpaceLoop(lx)), "lexRoot")

RECURSIVE lexEolLoop(_)
lexEolLoop(lx) ==
    LET p == peek(lx)
    IN  IF isEol(p.r) THEN lexEolLoop(next(p.l).l) ELSE p.l

\* Mutant of lexEol: the ItemEol is the one character lexRoot has read.
lexEol_single(lx) == emit(lx, ItemEol, "lexRoot")

lexEol(lx) == emit(lexEolLoop(lx), ItemEol, "lexRoot")

RECURSIVE lexCommentLoop(_)
lexCommentLoop(lx) ==
    LET p == peek(lx)
    IN  IF ~isEol(p.r) /\ p.r # eof THEN lexCommentLoop(next(p.l).l) ELSE p.l

\* Mutant of lexComment: the line terminator after the comment is skipped
\* with it.
lexComment_eatsEol(lx) ==
    Return(ignore(next(lexCommentLoop(lx)).l), "lexRoot")

lexComment(lx) == Return(ignore(lexCommentLoop(lx)), "lexRoot")

RECURSIVE lexIdentifierLoop(_)
lexIdentifierLoop(lx) ==
    LET n == next(lx)
    IN  IF isAlphaNumeric(n.r) THEN lexIdentifierLoop(n.l) ELSE backup(n.l)

\* Mutant of lexIdentifier: the keyword lookup is left out.
lexIdentifier_noLookup(lx) ==
    emit(lexIdentifierLoop(lx), ItemIdentifier, "lexRoot")

lexIdentifier(lx) ==
    LET l1 == lexIdentifierLoop(lx)
        itemKind == strToItemKind(acceptStr(l1))
    IN  IF itemKind # 0
        THEN emit(l1, itemKind, "lexRoot")
        ELSE emit(l1, ItemIdentifier, "lexRoot")

\* Mutant of scanNumber: the character after the digits is not looked at.
scanNumber_noLetterCheck(lx) ==
    LET l1 == acceptRun(lx, 48..57)
    IN  IF acceptLen(l1) > 1 /\ At(l1.input, l1.start) = 48
        THEN [l |-> l1, r |-> FALSE]
        ELSE [l |-> peek(l1).l, r |-> TRUE]

\* [the Lexer after the call, the result]
scanNumber(lx) ==
    LET l1 == acceptRun(lx, 48..57)
        p  == peek(l1)
    IN  IF acceptLen(l1) > 1 /\ At(l1.input, l1.start) = 48
        THEN [l |-> l1, r |-> FALSE]
        ELSE IF isLetter(p.r)
             THEN [l |-> next(p.l).l, r |-> FALSE]
             ELSE [l |-> p.l, r |-> TRUE]

lexNumber(lx) ==
    LET s == scanNumber(lx)
    IN  IF ~s.r
        THEN errorf(s.l, "bad number syntax: %q", acceptStr(s.l))
        ELSE emit(s.l, ItemNumber, "lexRoot")

\* l.state(l) in Lexer.run.
StateFn(lx) ==
    CASE lx.state = "lexRoot" -> lexRoot(lx)
      [] lx.state = "lexSpace" -> lexSpace(lx)
      [] lx.state = "lexEol" -> lexEol(lx)
      [] lx.state = "lexComment" -> lexComment(lx)
      [] lx.state = "lexIdentifier" -> lexIdentifier(lx)
      [] lx.state = "lexNumber" -> lexNumber(lx)

---------------------------------------------------------------------------
(* The lexer goroutine, lex.go:272-276 with the sends of emit and errorf.  *)

NoWait == [emit |-> FALSE, next |-> "nil"]

\* Mutant of LexerRunning: the goroutine goes on while its item waits.
LexerRunning_buffered == l.state # "nil"

\* The goroutine is between two sends and has not returned.
LexerRunning == l.state # "nil" /\ items = <<>>

\* One iteration of run's loop, up to the return of the state function or
\* to the send it blocks in.
LexerRun(fn) ==
    /\ LexerRunning
    /\ l.state = fn
    /\ LET res == StateFn(l)
       IN  /\ ~res.l.starved
           /\ IF res.send = <<>>
              THEN /\ l' = [res.l EXCEPT !.state = res.next]
                   /\ UNCHANGED <<items, lwait>>
              ELSE /\ l' = res.l
                   /\ items' = res.send
                   /\ lwait' = [emit |-> res.emit, next |-> res.next]
    /\ UNCHANGED <<closed, revealed, profile, delivered, parser, parser0, driver>>

Run_lexRoot == LexerRun("lexRoot")

Run_lexSpace == LexerRun("lexSpace")

Run_lexEol == LexerRun("lexEol")

Run_lexComment == LexerRun("lexComment")

Run_lexIdentifier == LexerRun("lexIdentifier")

Run_lexNumber == LexerRun("lexNumber")

\* Mutant of Resumed: emit does not move start up to pos after the send.
Resumed_keepsStart == [l EXCEPT !.state = lwait.next]

\* The Lexer once the receiver has taken the item: emit goes on to set
\* start = pos, and the state function returns lwait.next to run.
Resumed ==
    [l EXCEPT !.state = lwait.next,
              !.start = IF lwait.emit THEN l.pos ELSE l.start]

\* The text: the running state function needs a byte that is not decided
\* yet; the text goes on with one more chunk, or ends here.
Reveal ==
    /\ LexerRunning
    /\ StateFn(l).l.starved
    /\ \/ /\ revealed < profile.max
          /\ \E c \in profile.chunks : l' = [l EXCEPT !.input = l.input \o c]
          /\ revealed' = revealed + 1
          /\ UNCHANGED closed
       \/ /\ closed' = TRUE
          /\ UNCHANGED <<l, revealed>>
    /\ UNCHANGED <<profile, items, lwait, delivered, parser, parser0, driver>>

---------------------------------------------------------------------------
(* The token dump of src/cmd/speakc/main.go:26-39: pull items until the    *)
(* end-of-input item or an error item.                                     *)

DriverNextItem ==
    /\ driver = "loop"
    /\ items # <<>>
    /\ delivered' = Append(delivered, items[1])
    /\ items' = <<>>
    /\ l' = Resumed
    /\ lwait' = NoWait
    /\ driver' = IF items[1].Kind = ItemEof \/ items[1].Kind = ItemError
                 THEN "done" ELSE "loop"
    /\ UNCHANGED <<closed, revealed, profile, parser, parser0>>

\* The chunks the texts of the lexer's own specification are made of.
LexChunks ==
    { <<48>>, <<49>>, <<97>>, <<65>>,           \* "0" "1" "a" "A"
      <<101, 110, 100>>, <<69, 110, 100>>,      \* "end" "End"
      <<98, 121, 116, 101>>,                    \* "byte"
      <<32>>, <<10>>, <<13>>, <<47>>,           \* " " "\n" "\r" "/"
      <<58>>, <<91>>, <<93>>, <<46>>,           \* ":" "[" "]" "."
      <<95>>, <<195, 169>> }                    \* "_" "e with acute accent"

LexerSteps ==
    \/ Run_lexRoot
    \/ Run_lexSpace
    \/ Run_lexEol
    \/ Run_lexComment
    \/ Run_lexIdentifier
    \/ Run_lexNumber

InitLexer ==
    /\ l = NewLexerStruct(<<>>)
    /\ closed = FALSE
    /\ revealed = 0
    /\ items = <<>>
    /\ lwait = NoWait
    /\ delivered = <<>>

InitLex ==
    /\ InitLexer
    /\ profile = [chunks |-> LexChunks, max |-> MaxLexChunks]
    /\ parser = [status |-> "unused"]
    /\ parser0 = [status |-> "unused"]
    /\ driver = "loop"

NextLex ==
    \/ LexerSteps
    \/ Reveal
    \/ DriverNextItem

SpecLex == InitLex /\ [][NextLex]_vars

---------------------------------------------------------------------------
(* Line and column of an item, lex.go:210-245.  An index outside the       *)
(* string panics.                                                          *)

\* strings.Count(s, "\n")
RECURSIVE CountNewlines(_)
CountNewlines(s) ==
    IF s = <<>> THEN 0
    ELSE (IF Head(s) = 10 THEN 1 ELSE 0) + CountNewlines(Tail(s))

\* l.input[item.Pos] (or the slice l.input[:item.Pos]) is out of range.
PositionPanics(lx, item) ==
    item.Kind # ItemEof /\ (item.Pos < 0 \/ item.Pos >= Len(lx.input))

LineNumber(lx, item) ==
    IF item.Kind = ItemEof
    THEN 1 + CountNewlines(lx.input)
    ELSE LET line == 1 + CountNewlines(Slice(lx.input, 0, item.Pos))
         IN  IF isEol(At(lx.input, item.Pos)) THEN line + 1 ELSE line

\* for i := pos; i >= 0; i-- { ... }
RECURSIVE ColumnLoop(_, _, _)
ColumnLoop(input, i, column) ==
    IF i < 0 THEN column
    ELSE LET c == At(input, i)
         IN  IF isEol(c) THEN column
             ELSE ColumnLoop(input, i - 1,
                             IF c < 128 THEN column + 1 ELSE column)

ColumnNumber(lx, item) ==
    IF item.Kind = ItemEof
    THEN IF item.Pos > 0
         THEN ColumnLoop(lx.input, item.Pos - 1, 0)
         ELSE 0
    ELSE ColumnLoop(lx.input, item.Pos, -1)

---------------------------------------------------------------------------
(* The Parser, parse.go:88-181.  A method takes the Parser and returns     *)
(* the Parser after the call, [p, r] where it has a result.                *)
(*                                                                         *)
(* ParseText runs between two receives without touching anything the       *)
(* lexer goroutine writes, so the model runs it as one step per received   *)
(* item: rest holds the items received that the run has not pulled yet,    *)
(* and a pull from an empty rest leaves the Parser as it stands while it   *)
(* is blocked in NextItem (status "blocked").  Nothing changes the Parser  *)
(* past that point of a run; the run is redone from the call of ParseText  *)
(* when the next item arrives, and takes the same path up to that point.   *)

\* new(Parser), main.go:83
NewParser ==
    [prev |-> ZeroItem, next |-> ZeroItem, errors |-> <<>>, pkg |-> <<>>,
     rest |-> <<>>, status |-> "running"]

Running(p) == p.status = "running"

\* p.next = p.lexer.NextItem()
NextItem(p) ==
    IF ~Running(p) THEN p
    ELSE IF p.rest = <<>>
         THEN [p EXCEPT !.status = "blocked"]
         ELSE [p EXCEPT !.next = Head(p.rest), !.rest = Tail(p.rest)]

\* Mutant of accept: the item is consumed whether it matches or not.
accept_always(p, kind) ==
    IF ~Running(p) THEN [p |-> p, r |-> FALSE]
    ELSE [p |-> NextItem([p EXCEPT !.prev = p.next]), r |-> p.next.Kind = kind]

\* Mutant of consume: the next item is pulled whatever the lookahead is.
consume_unpinned(p) ==
    IF ~Running(p) THEN p ELSE NextItem([p EXCEPT !.prev = p.next])

consume(p) ==
    IF ~Running(p) THEN p
    ELSE LET q == [p EXCEPT !.prev = p.next]
         IN  IF q.next.Kind # ItemEof /\ q.next.Kind # ItemError
             THEN NextItem(q)
             ELSE q

ok(p) == Len(p.errors) = 0

\* The diagnostic keeps what the message is formatted from: the line, the
\* column, the item and the text after it ("" for a lexer error).
itemError(p, item, postfix) ==
    IF ~Running(p) THEN p
    ELSE IF PositionPanics(l, item)
         THEN [p EXCEPT !.status = "panic"]
         ELSE [p EXCEPT !.errors = Append(p.errors,
                  [line |-> LineNumber(l, item),
                   column |-> ColumnNumber(l, item),
                   item |-> item,
                   postfix |-> IF item.Kind = ItemError THEN ""
                               ELSE IF postfix = "nil" THEN "unexpected token"
                               ELSE postfix])]

accept(p, kind) ==
    IF ~Running(p) \/ p.next.Kind # kind
    THEN [p |-> p, r |-> FALSE]
    ELSE [p |-> consume(p), r |-> TRUE]

acceptM(p, fn(_)) ==
    IF ~Running(p) \/ fn(p.next) # "nil"
    THEN [p |-> p, r |-> FALSE]
    ELSE [p |-> consume(p), r |-> TRUE]

expect(p, kind) ==
    IF ~Running(p) THEN [p |-> p, r |-> FALSE]
    ELSE IF p.next.Kind # kind
         THEN [p |-> itemError(p, p.next, <<"expected %s", kind>>), r |-> FALSE]
         ELSE [p |-> consume(p), r |-> TRUE]

expectM(p, fn(_)) ==
    IF ~Running(p) THEN [p |-> p, r |-> FALSE]
    ELSE IF fn(p.next) # "nil"
         THEN [p |-> itemError(p, p.next, fn(p.next)), r |-> FALSE]
         ELSE [p |-> consume(p), r |-> TRUE]

\* Mutant of matchBigIdentifier: any identifier matches.
matchBigIdentifier_anyCase(item) ==
    IF item.Kind = ItemIdentifier THEN "nil"
    ELSE "expected capitalized identifier"

\* The match functions return the error, "nil" for none.
matchBigIdentifier(item) ==
    IF item.Kind = ItemIdentifier /\ 65 <= At(item.Value, 0) /\ At(item.Value, 0) <= 90
    THEN "nil"
    ELSE "expected capitalized identifier"

\* Mutant of matchLittleIdentifier: any identifier matches.
matchLittleIdentifier_anyCase(item) ==
    IF item.Kind = ItemIdentifier THEN "nil"
    ELSE "expected uncapitalized identifier"

matchLittleIdentifier(item) ==
    IF item.Kind = ItemIdentifier /\ 97 <= At(item.Value, 0) /\ At(item.Value, 0) <= 122
    THEN "nil"
    ELSE "expected uncapitalized identifier"

matchBasicType(item) ==
    IF item.Kind > ItemBasicTypeBegin /\ item.Kind < ItemBasicTypeEnd
    THEN "nil"
    ELSE "expected basic type"

\* a && b: b is run on the Parser a left only when a returned true.
AndThen(a, b(_)) == IF a.r THEN b(a.p) ELSE a

---------------------------------------------------------------------------
(* The productions, parse.go:243-331. *)

\* Mutant of parseChoiceIdentifier: it returns when the expect fails.
parseChoiceIdentifier_stopsAtFirst(p) ==
    LET e     == expect(p, ItemIdentifier)
        item0 == e.p.prev
        d     == accept(e.p, ItemDot)
        q     == IF ~e.r THEN e.p
                 ELSE IF d.r
                 THEN expectM(d.p, matchBigIdentifier).p
                 ELSE IF matchBigIdentifier(item0) # "nil"
                      THEN itemError(d.p, item0, matchBigIdentifier(item0))
                      ELSE d.p
    IN  [p |-> q, r |-> ok(q)]

\* Mutant of parseChoiceIdentifier: an identifier that no '.' follows is
\* not checked.
parseChoiceIdentifier_unchecked(p) ==
    LET e == expect(p, ItemIdentifier)
        d == accept(e.p, ItemDot)
        q == IF d.r THEN expectM(d.p, matchBigIdentifier).p ELSE d.p
    IN  [p |-> q, r |-> ok(q)]

parseChoiceIdentifier(p) ==
    LET e     == expect(p, ItemIdentifier)
        item0 == e.p.prev
        d     == accept(e.p, ItemDot)
        q     == IF d.r
                 THEN expectM(d.p, matchBigIdentifier).p
                 ELSE IF matchBigIdentifier(item0) # "nil"
                      THEN itemError(d.p, item0, matchBigIdentifier(item0))
                      ELSE d.p
    IN  [p |-> q, r |-> ok(q)]

parseChoiceField(p) ==
    LET a == expect(p, ItemNumber)
        b == AndThen(a, LAMBDA q : expect(q, ItemColon))
        c == AndThen(b, parseChoiceIdentifier)
        d == AndThen(c, LAMBDA q : expect(q, ItemEol))
    IN  d.p

\* for p.ok() && !p.accept(ItemEnd) { p.parseChoiceField() }
RECURSIVE parseChoiceLoop(_)
parseChoiceLoop(p) ==
    IF ~Running(p) \/ ~ok(p) THEN p
    ELSE LET a == accept(p, ItemEnd)
         IN  IF a.r THEN a.p ELSE parseChoiceLoop(parseChoiceField(a.p))

parseChoice(p) ==
    LET a == expectM(p, matchBigIdentifier)
        b == AndThen(a, LAMBDA q : expect(q, ItemEol))
    IN  IF b.r THEN parseChoiceLoop(b.p) ELSE b.p

\* Mutant of parseEnumField: the tag "0" is a diagnostic.
parseEnumField_positiveTag(p) ==
    LET a == IF Running(p) /\ p.next.Kind = ItemNumber /\ p.next.Value = <<48>>
             THEN [p |-> itemError(p, p.next, "expected positive number"),
                   r |-> FALSE]
             ELSE expect(p, ItemNumber)
        b == AndThen(a, LAMBDA q : expect(q, ItemColon))
        c == AndThen(b, LAMBDA q : expectM(q, matchBigIdentifier))
        d == AndThen(c, LAMBDA q : expect(q, ItemEol))
    IN  d.p

parseEnumField(p) ==
    LET a == expect(p, ItemNumber)
        b == AndThen(a, LAMBDA q : expect(q, ItemColon))
        c == AndThen(b, LAMBDA q : expectM(q, matchBigIdentifier))
        d == AndThen(c, LAMBDA q : expect(q, ItemEol))
    IN  d.p

\* Mutant of the loop of parseEnum: the end of input ends the body too.
RECURSIVE parseEnumLoop_endsAtEof(_)
parseEnumLoop_endsAtEof(p) ==
    IF ~Running(p) \/ ~ok(p) \/ p.next.Kind = ItemEof THEN p
    ELSE LET a == accept(p, ItemEnd)
         IN  IF a.r THEN a.p
             ELSE parseEnumLoop_endsAtEof(parseEnumField(a.p))

RECURSIVE parseEnumLoop(_)
parseEnumLoop(p) ==
    IF ~Running(p) \/ ~ok(p) THEN p
    ELSE LET a == accept(p, ItemEnd)
         IN  IF a.r THEN a.p ELSE parseEnumLoop(parseEnumField(a.p))

parseEnum(p) ==
    LET a == expectM(p, matchBigIdentifier)
        b == AndThen(a, LAMBDA q : expect(q, ItemEol))
    IN  IF b.r THEN parseEnumLoop(b.p) ELSE b.p

\* Mutant of parseArray: a size of zero is a diagnostic.
parseArray_nonZero(p) ==
    LET a == accept(p, ItemLeftBracket)
        n == accept(a.p, ItemNumber)
        q == IF ~a.r THEN a.p
             ELSE IF n.r /\ n.p.prev.Value = <<48>>
                  THEN itemError(n.p, n.p.prev, "expected positive number")
                  ELSE expect(n.p, ItemRightBracket).p
    IN  [p |-> q, r |-> ok(q)]

\* Mutant of parseArray: no size is accepted between the brackets.
parseArray_dynamicOnly(p) ==
    LET a == accept(p, ItemLeftBracket)
        q == IF a.r THEN expect(a.p, ItemRightBracket).p ELSE a.p
    IN  [p |-> q, r |-> ok(q)]

parseArray(p) ==
    LET a == accept(p, ItemLeftBracket)
        q == IF a.r
             THEN expect(accept(a.p, ItemNumber).p, ItemRightBracket).p
             ELSE a.p
    IN  [p |-> q, r |-> ok(q)]

parseTypeIdentifier(p) ==
    LET a == acceptM(p, matchBasicType)
        q == IF a.r THEN a.p ELSE parseChoiceIdentifier(a.p).p
    IN  [p |-> q, r |-> ok(q)]

parseMessageField(p) ==
    LET a == expect(p, ItemNumber)
        b == AndThen(a, LAMBDA q : expect(q, ItemColon))
        c == AndThen(b, LAMBDA q : expectM(q, matchLittleIdentifier))
        d == AndThen(c, parseArray)
        e == AndThen(d, parseTypeIdentifier)
        f == AndThen(e, LAMBDA q : expect(q, ItemEol))
    IN  f.p

RECURSIVE parseMessageLoop(_)
parseMessageLoop(p) ==
    IF ~Running(p) \/ ~ok(p) THEN p
    ELSE LET a == accept(p, ItemEnd)
         IN  IF a.r THEN a.p ELSE parseMessageLoop(parseMessageField(a.p))

parseMessage(p) ==
    LET a == expectM(p, matchBigIdentifier)
        b == AndThen(a, LAMBDA q : expect(q, ItemEol))
    IN  IF b.r THEN parseMessageLoop(b.p) ELSE b.p

\* Mutant of parsePackage: a package name, once set, is kept.
parsePackage_keepsFirst(p) ==
    LET a == expect(p, ItemIdentifier)
    IN  IF a.r /\ Running(a.p)
        THEN expect([a.p EXCEPT !.pkg = IF a.p.pkg = <<>> THEN a.p.prev.Value
                                        ELSE a.p.pkg],
                    ItemEol).p
        ELSE a.p

parsePackage(p) ==
    LET a == expect(p, ItemIdentifier)
    IN  IF a.r /\ Running(a.p)
        THEN expect([a.p EXCEPT !.pkg = a.p.prev.Value], ItemEol).p
        ELSE a.p

parseType(p) ==
    LET a == expectM(p, matchBigIdentifier)
        b == AndThen(a, parseArray)
        c == AndThen(b, LAMBDA q : expectM(q, matchBasicType))
        d == AndThen(c, LAMBDA q : expect(q, ItemEol))
    IN  d.p

---------------------------------------------------------------------------
(* The top level, parse.go:105-111 and 218-239. *)

\* Mutant of parseRoot: a diagnostic does not end the loop; the item it is
\* about is skipped and the dispatch goes on up to the last item.
RECURSIVE parseRoot_resumes(_)
parseRoot_resumes(p) ==
    IF ~Running(p) \/ p.next.Kind = ItemError THEN p
    ELSE IF accept(p, ItemEol).r THEN parseRoot_resumes(accept(p, ItemEol).p)
    ELSE IF accept(p, ItemChoice).r
         THEN parseRoot_resumes(parseChoice(accept(p, ItemChoice).p))
    ELSE IF accept(p, ItemEnum).r
         THEN parseRoot_resumes(parseEnum(accept(p, ItemEnum).p))
    ELSE IF accept(p, ItemMessage).r
         THEN parseRoot_resumes(parseMessage(accept(p, ItemMessage).p))
    ELSE IF accept(p, ItemPackage).r
         THEN parseRoot_resumes(parsePackage(accept(p, ItemPackage).p))
    ELSE IF accept(p, ItemType).r
         THEN parseRoot_resumes(parseType(accept(p, ItemType).p))
    ELSE IF accept(p, ItemEof).r THEN accept(p, ItemEof).p
    ELSE parseRoot_resumes(consume(itemError(p, p.next, "nil")))

RECURSIVE parseRoot(_)
parseRoot(p) ==
    IF ~Running(p) \/ ~ok(p) THEN p
    ELSE IF accept(p, ItemEol).r THEN parseRoot(accept(p, ItemEol).p)
    ELSE IF accept(p, ItemChoice).r
         THEN parseRoot(parseChoice(accept(p, ItemChoice).p))
    ELSE IF accept(p, ItemEnum).r
         THEN parseRoot(parseEnum(accept(p, ItemEnum).p))
    ELSE IF accept(p, ItemMessage).r
         THEN parseRoot(parseMessage(accept(p, ItemMessage).p))
    ELSE IF accept(p, ItemPackage).r
         THEN parseRoot(parsePackage(accept(p, ItemPackage).p))
    ELSE IF accept(p, ItemType).r
         THEN parseRoot(parseType(accept(p, ItemType).p))
    ELSE IF accept(p, ItemEof).r THEN accept(p, ItemEof).p
    ELSE parseRoot(itemError(p, p.next, "nil"))

\* ParseText called on the Parser p0, with the items received so far:
\* blocked in a NextItem, or returned with p.ok() and p.errors.
ParseText(p0, received) ==
    LET p == parseRoot(NextItem([p0 EXCEPT !.rest = received]))
    IN  IF Running(p) THEN [p EXCEPT !.status = "returned"] ELSE p

\* <-l.items in the parser's NextItem: the run goes on to its next receive,
\* to its return or to its panic.
ParserNextItem ==
    /\ parser.status = "blocked"
    /\ items # <<>>
    /\ delivered' = Append(delivered, items[1])
    /\ items' = <<>>
    /\ l' = Resumed
    /\ lwait' = NoWait
    /\ parser' = ParseText(parser0, delivered')
    /\ UNCHANGED <<closed, revealed, profile, parser0, driver>>

\* The chunks of the texts that mix all the declarations.
Chunks ==
    { <<101, 110, 117, 109, 32>>,   \* "enum "
      <<99, 104, 111, 105, 99, 101, 32>>,   \* "choice "
      <<109, 101, 115, 115, 97, 103, 101, 32>>,   \* "message "
      <<112, 97, 99, 107, 97, 103, 101, 32>>,   \* "package "
      <<116, 121, 112, 101, 32>>,   \* "type "
      <<101, 110, 100, 32>>,   \* "end "
      <<98, 121, 116, 101, 32>>,   \* "byte "
      <<65, 32>>,   \* "A "
      <<97, 32>>,   \* "a "
      <<49, 32>>,   \* "1 "
      <<10>>,   \* "\n"
      <<58>>,   \* ":"
      <<91>>,   \* "["
      <<93>>,   \* "]"
      <<46>>,   \* "."
      <<36>>    \* "$"
    }

\* The chunks of the longer texts, which hold declarations of one kind.
EnumChunks ==
    { <<101, 110, 117, 109, 32>>,   \* "enum "
      <<101, 110, 100, 32>>,   \* "end "
      <<65, 32>>,   \* "A "
      <<97, 32>>,   \* "a "
      <<49, 32>>,   \* "1 "
      <<58>>,   \* ":"
      <<10>>,   \* "\n"
      <<36>>    \* "$"
    }

ChoiceChunks ==
    { <<99, 104, 111, 105, 99, 101, 32>>,   \* "choice "
      <<101, 110, 100, 32>>,   \* "end "
      <<65, 32>>,   \* "A "
      <<97, 32>>,   \* "a "
      <<49, 32>>,   \* "1 "
      <<58>>,   \* ":"
      <<46>>,   \* "."
      <<10>>,   \* "\n"
      <<36>>    \* "$"
    }

MessageChunks ==
    { <<109, 101, 115, 115, 97, 103, 101, 32>>,   \* "message "
      <<101, 110, 100, 32>>,   \* "end "
      <<65, 32>>,   \* "A "
      <<97, 32>>,   \* "a "
      <<49, 32>>,   \* "1 "
      <<58>>,   \* ":"
      <<91>>,   \* "["
      <<93>>,   \* "]"
      <<46>>,   \* "."
      <<98, 121, 116, 101, 32>>,   \* "byte "
      <<10>>    \* "\n"
    }

TypeChunks ==
    { <<116, 121, 112, 101, 32>>,   \* "type "
      <<83, 104, 97, 49, 32>>,   \* "Sha1 "
      <<97, 32>>,   \* "a "
      <<50, 48>>,   \* "20"
      <<91>>,   \* "["
      <<93>>,   \* "]"
      <<98, 121, 116, 101>>,   \* "byte"
      <<10>>    \* "\n"
    }

Profiles ==
    { [chunks |-> Chunks, max |-> MaxChunks] } \cup
    { [chunks |-> c, max |-> MaxDeclChunks] :
        c \in {EnumChunks, MessageChunks} } \cup
    { [chunks |-> ChoiceChunks, max |-> MaxChoiceChunks] } \cup
    { [chunks |-> TypeChunks, max |-> MaxTypeChunks] }

Init ==
    /\ InitLexer
    /\ profile \in Profiles
    /\ parser0 = NewParser
    /\ parser = ParseText(parser0, <<>>)
    /\ driver = "unused"

Next ==
    \/ LexerSteps
    \/ Reveal
    \/ ParserNextItem

Spec == Init /\ [][Next]_vars

---------------------------------------------------------------------------
(* A file parsed as ParseFile does, parse.go:96-103: the whole file is     *)
(* read, then ParseText is called with its text.  The text is fixed and    *)
(* closed from the start; it is made of whole lines.                       *)

\* The lines of the enum of the example, a line of blanks and a comment, and
\* an empty line that ends in "\r\n".
EnumLines ==
    { <<101, 110, 117, 109, 32, 67, 111, 108, 111, 114, 10>>,   \* "enum Color\n"
      <<32, 32, 32, 32, 49, 58, 32, 82, 101, 100, 10>>,   \* "    1: Red\n"
      <<101, 110, 100, 10>>,   \* "end\n"
      <<32, 9, 47, 47, 32, 99, 10>>,   \* " \t// c\n"
      <<13, 10>>   \* "\r\n"
    }

\* Package declarations.
PackageLines ==
    { <<112, 97, 99, 107, 97, 103, 101, 32, 97, 10>>,   \* "package a\n"
      <<112, 97, 99, 107, 97, 103, 101, 32, 66, 99, 10>>,   \* "package Bc\n"
      <<112, 97, 99, 107, 97, 103, 101, 10>>,   \* "package\n"
      <<116, 121, 112, 101, 32, 84, 32, 98, 121, 116, 101, 10>>   \* "type T byte\n"
    }

\* Declarations with array specs.
ArrayLines ==
    { <<116, 121, 112, 101, 32, 84, 32, 91, 48, 93, 98, 121, 116, 101, 10>>,   \* "type T [0]byte\n"
      <<116, 121, 112, 101, 32, 84, 32, 91, 93, 98, 121, 116, 101, 10>>,   \* "type T []byte\n"
      <<116, 121, 112, 101, 32, 84, 32, 91, 55, 93, 98, 121, 116, 101, 10>>,   \* "type T [7]byte\n"
      <<109, 101, 115, 115, 97, 103, 101, 32, 77, 10>>,   \* "message M\n"
      <<49, 58, 32, 97, 32, 91, 48, 93, 84, 10>>,   \* "1: a [0]T\n"
      <<49, 58, 32, 98, 32, 91, 93, 98, 121, 116, 101, 10>>,   \* "1: b []byte\n"
      <<101, 110, 100, 10>>   \* "end\n"
    }

\* The headers of the three kinds of block, and field lines with the tags
\* "0" and "1", with a letter for the tag, and with no ':' after the tag.
TagLines ==
    { <<101, 110, 117, 109, 32, 69, 10>>,   \* "enum E\n"
      <<99, 104, 111, 105, 99, 101, 32, 67, 10>>,   \* "choice C\n"
      <<109, 101, 115, 115, 97, 103, 101, 32, 77, 10>>,   \* "message M\n"
      <<48, 58, 32, 65, 10>>,   \* "0: A\n"
      <<48, 58, 32, 97, 32, 98, 121, 116, 101, 10>>,   \* "0: a byte\n"
      <<49, 58, 32, 65, 10>>,   \* "1: A\n"
      <<97, 58, 32, 65, 10>>,   \* "a: A\n"
      <<49, 32, 65, 10>>,   \* "1 A\n"
      <<101, 110, 100, 10>>   \* "end\n"
    }

\* The texts of at most n of the lines.
RECURSIVE TextsOf(_, _)
TextsOf(lines, n) ==
    IF n = 0 THEN {<<>>}
    ELSE LET shorter == TextsOf(lines, n - 1)
         IN  shorter \cup { t \o ln : t \in shorter, ln \in lines }

FileProfiles ==
    { [chunks |-> EnumLines, max |-> MaxLines] } \cup
    { [chunks |-> c, max |-> MaxDeclLines] :
        c \in {PackageLines, ArrayLines, TagLines} }

InitFile ==
    /\ profile \in FileProfiles
    /\ \E text \in TextsOf(profile.chunks, profile.max) :
           l = NewLexerStruct(text)
    /\ closed = TRUE
    /\ revealed = profile.max
    /\ items = <<>>
    /\ lwait = NoWait
    /\ delivered = <<>>
    /\ parser0 = NewParser
    /\ parser = ParseText(parser0, <<>>)
    /\ driver = "unused"

NextFile ==
    \/ LexerSteps
    \/ ParserNextItem

SpecFile == InitFile /\ [][NextFile]_vars

---------------------------------------------------------------------------
(* The main of src/speakc/main.go:83-91: one Parser parses the files named *)
(* on the command line in turn, and the first file that is not ok ends     *)
(* the process.                                                            *)

\* for _, filename := range f.speakFiles: the call of ParseFile on the next
\* file, once the call before has returned ok.  The Parser is the one that
\* call left.
MainNextFile ==
    /\ parser.status = "returned"
    /\ ok(parser)
    /\ driver < MaxFiles
    /\ driver' = driver + 1
    /\ \E text \in TextsOf(profile.chunks, profile.max) :
           l' = NewLexerStruct(text)
    /\ items' = <<>>
    /\ lwait' = NoWait
    /\ delivered' = <<>>
    /\ parser0' = [parser EXCEPT !.status = "running", !.rest = <<>>]
    /\ parser' = ParseText(parser0', <<>>)
    /\ UNCHANGED <<closed, revealed, profile>>

InitMain ==
    /\ profile = [chunks |-> PackageLines, max |-> MaxFileLines]
    /\ \E text \in TextsOf(profile.chunks, profile.max) :
           l = NewLexerStruct(text)
    /\ closed = TRUE
    /\ revealed = profile.max
    /\ items = <<>>
    /\ lwait = NoWait
    /\ delivered = <<>>
    /\ parser0 = NewParser
    /\ parser = ParseText(parser0, <<>>)
    /\ driver = 1

NextMain ==
    \/ LexerSteps
    \/ ParserNextItem
    \/ MainNextFile

SpecMain == InitMain /\ [][NextMain]_vars

\* Lexer.run with a receiver that takes every item: the items of a text
\* (of a closed text: no byte of it is left to decide).
RECURSIVE RunLexer(_, _)
RunLexer(lx, sent) ==
    IF lx.state = "nil" THEN sent
    ELSE LET res == StateFn(lx)
         IN  IF res.send = <<>>
             THEN RunLexer([res.l EXCEPT !.state = res.next], sent)
             ELSE RunLexer([res.l EXCEPT
                               !.state = res.next,
                               !.start = IF res.emit THEN res.l.pos
                                         ELSE res.l.start],
                           sent \o res.send)

\* new(Parser).ParseFile of a file that holds text: the Parser it leaves.
ParseFile(text) ==
    ParseText(NewParser, RunLexer(NewLexerStruct(text), <<>>))

---------------------------------------------------------------------------
(* The primitives of the parser, parse.go:124-160, called one after the    *)
(* other in any order on a Parser that ParseText has seeded, over the      *)
(* items of a text.  The items are received from the lexer first, so that  *)
(* no call waits for one: rest holds those not pulled yet.  driver holds   *)
(* the call made last and what it returned.                                *)

PrimLines ==
    { <<112, 97, 99, 107, 97, 103, 101, 32, 97, 10>>,   \* "package a\n"
      <<116, 121, 112, 101, 32, 84, 32, 98, 121, 116, 101, 10>>,   \* "type T byte\n"
      <<36, 10>>   \* "$\n"
    }

\* The kinds and the match functions the calls are made with.
PrimKinds == {ItemIdentifier, ItemEol, ItemEof, ItemError, ItemType}

PrimMatchers == {"matchBigIdentifier", "matchBasicType"}

Match(fn, item) ==
    IF fn = "matchBigIdentifier" THEN matchBigIdentifier(item)
    ELSE matchBasicType(item)

\* The call res of the primitive op with the argument arg.
PrimCall(op, arg, res) ==
    /\ Running(parser)
    /\ Len(parser.errors) < MaxErrors
    /\ parser' = res.p
    /\ driver' = [op |-> op, arg |-> arg, r |-> res.r]
    /\ UNCHANGED <<l, closed, revealed, profile, items, lwait, delivered,
                   parser0>>

PrimAccept == \E kind \in PrimKinds : PrimCall("accept", kind, accept(parser, kind))

PrimExpect == \E kind \in PrimKinds : PrimCall("expect", kind, expect(parser, kind))

PrimAcceptM ==
    \E fn \in PrimMatchers :
        PrimCall("acceptM", fn, acceptM(parser, LAMBDA item : Match(fn, item)))

PrimExpectM ==
    \E fn \in PrimMatchers :
        PrimCall("expectM", fn, expectM(parser, LAMBDA item : Match(fn, item)))

\* <-l.items: an item of the text is received.
PrimReceive ==
    /\ driver.op = "NewLexer"
    /\ items # <<>>
    /\ delivered' = Append(delivered, items[1])
    /\ items' = <<>>
    /\ l' = Resumed
    /\ lwait' = NoWait
    /\ UNCHANGED <<closed, revealed, profile, parser, parser0, driver>>

\* ParseText seeds the Parser with the first item:
\* p.next = p.lexer.NextItem().
PrimSeed ==
    /\ driver.op = "NewLexer"
    /\ l.state = "nil"
    /\ items = <<>>
    /\ parser' = NextItem([parser0 EXCEPT !.rest = delivered])
    /\ driver' = [op |-> "NextItem", arg |-> "", r |-> TRUE]
    /\ UNCHANGED <<l, closed, revealed, profile, items, lwait, delivered,
                   parser0>>

InitPrim ==
    /\ profile = [chunks |-> PrimLines, max |-> MaxFileLines]
    /\ \E text \in TextsOf(profile.chunks, profile.max) :
           l = NewLexerStruct(text)
    /\ closed = TRUE
    /\ revealed = profile.max
    /\ items = <<>>
    /\ lwait = NoWait
    /\ delivered = <<>>
    /\ parser0 = NewParser
    /\ parser = ParseText(parser0, <<>>)
    /\ driver = [op |-> "NewLexer", arg |-> "", r |-> TRUE]

NextPrim ==
    \/ LexerSteps
    \/ PrimReceive
    \/ PrimSeed
    \/ PrimAccept
    \/ PrimExpect
    \/ PrimAcceptM
    \/ PrimExpectM

SpecPrim == InitPrim /\ [][NextPrim]_vars

---------------------------------------------------------------------------
(* Properties of the lexer, checked with the token dump as the receiver    *)
(* (SpecLex).                                                              *)

\* The items the lexer has sent or is sending, in order.
Sent == delivered \o items

Terminal(item) == item.Kind = ItemEof \/ item.Kind = ItemError

Last(s) == s[Len(s)]

\* C1: the items of a text form a finite sequence (at most one item per
\* byte, and the terminal one) in which a terminal item, ItemEof or
\* ItemError, is the last one: the goroutine ends with it and sends nothing
\* after it; and the goroutine ends, and the receiver stops, only after a
\* terminal item.
C1_TerminalItemIsLast ==
    /\ Len(Sent) <= Len(l.input) + 1
    /\ \A i \in 1..Len(Sent) : Terminal(Sent[i]) => i = Len(Sent)
    /\ (items # <<>> /\ Terminal(items[1])) => lwait.next = "nil"
    /\ (delivered # <<>> /\ Terminal(Last(delivered))) =>
           l.state = "nil" /\ items = <<>> /\ driver = "done"
    /\ (l.state = "nil" \/ driver = "done") =>
           delivered # <<>> /\ Terminal(Last(delivered))

C1_Witness ==
    /\ driver = "done"
    /\ Len(delivered) >= 3
    /\ Last(delivered).Kind = ItemEof
    /\ l.state = "nil"

\* The end of the maximal run of bytes of the set class that starts at i.
RECURSIVE RunEnd(_, _, _)
RunEnd(s, i, class) ==
    IF i < Len(s) /\ At(s, i) \in class THEN RunEnd(s, i + 1, class) ELSE i

Digits == 48..57

Letters == (65..90) \cup (97..122)

\* C9: an item that starts at a digit stands for the maximal run of digits
\* there: it is the ItemNumber of that run if the run has one digit or does
\* not start with '0', and no ASCII letter follows it; otherwise it is an
\* ItemError, the last item of the stream.  An ItemNumber starts at a digit
\* that no digit precedes.
C9_NumberSyntax ==
    \A i \in 1..Len(Sent) :
        LET it    == Sent[i]
            e     == RunEnd(l.input, it.Pos, Digits)
            run   == Slice(l.input, it.Pos, e)
            good  == /\ (Len(run) = 1 \/ run[1] # 48)
                     /\ ~(e < Len(l.input) /\ At(l.input, e) \in Letters)
        IN  /\ (it.Pos < Len(l.input) /\ At(l.input, it.Pos) \in Digits) =>
                /\ e = Len(l.input) => closed
                /\ good => it.Kind = ItemNumber /\ it.Value = run
                /\ ~good => /\ it.Kind = ItemError
                            /\ i = Len(Sent)
                            /\ (IF items # <<>> THEN lwait.next ELSE l.state) = "nil"
            /\ it.Kind = ItemNumber =>
                /\ it.Pos < Len(l.input) /\ At(l.input, it.Pos) \in Digits
                /\ it.Pos > 0 => At(l.input, it.Pos - 1) \notin Digits

C9_Witness ==
    /\ driver = "done"
    /\ Len(delivered) >= 2
    /\ Last(delivered).Kind = ItemError
    /\ At(l.input, Last(delivered).Pos) \in Digits

\* The reserved words and the names of the basic types, with their kinds.
ReservedWords ==
    { <<<<99, 104, 111, 105, 99, 101>>, ItemChoice>>,
      <<<<101, 110, 100>>, ItemEnd>>,
      <<<<101, 110, 117, 109>>, ItemEnum>>,
      <<<<109, 101, 115, 115, 97, 103, 101>>, ItemMessage>>,
      <<<<112, 97, 99, 107, 97, 103, 101>>, ItemPackage>>,
      <<<<116, 121, 112, 101>>, ItemType>> }

BasicTypeNames ==
    { <<<<98, 111, 111, 108>>, ItemBool>>,
      <<<<98, 121, 116, 101>>, ItemByte>>,
      <<<<105, 110, 116, 56>>, ItemInt8>>,
      <<<<105, 110, 116, 49, 54>>, ItemInt16>>,
      <<<<105, 110, 116, 51, 50>>, ItemInt32>>,
      <<<<105, 110, 116, 54, 52>>, ItemInt64>>,
      <<<<117, 105, 110, 116, 56>>, ItemUint8>>,
      <<<<117, 105, 110, 116, 49, 54>>, ItemUint16>>,
      <<<<117, 105, 110, 116, 51, 50>>, ItemUint32>>,
      <<<<117, 105, 110, 116, 54, 52>>, ItemUint64>>,
      <<<<102, 108, 111, 97, 116, 51, 50>>, ItemFloat32>>,
      <<<<102, 108, 111, 97, 116, 54, 52>>, ItemFloat64>>,
      <<<<115, 116, 114, 105, 110, 103>>, ItemString>> }

Keywords == ReservedWords \cup BasicTypeNames

KeywordTexts == { k[1] : k \in Keywords }

\* C10: an item that starts at an ASCII letter stands for the maximal run
\* of ASCII letters and digits there; it has the kind of the keyword that is
\* spelled exactly so, and is an ItemIdentifier if there is none.  No
\* ItemIdentifier has the text of a keyword, so none is matched as a
\* message field name; the 6 reserved words and the 13 names of basic types
\* are all keywords.
C10_KeywordsWin ==
    /\ Cardinality(ReservedWords) = 6 /\ Cardinality(BasicTypeNames) = 13
    /\ \A k \in Keywords : strToItemKind(k[1]) = k[2]
    /\ \A i \in 1..Len(Sent) :
        LET it  == Sent[i]
            run == Slice(l.input, it.Pos,
                         RunEnd(l.input, it.Pos, Letters \cup Digits))
        IN  /\ (it.Pos < Len(l.input) /\ At(l.input, it.Pos) \in Letters) =>
                /\ it.Value = run
                /\ \A k \in Keywords : run = k[1] => it.Kind = k[2]
                /\ run \notin KeywordTexts => it.Kind = ItemIdentifier
            /\ it.Kind = ItemIdentifier => it.Value \notin KeywordTexts
            /\ (it.Kind # ItemError /\ it.Value \in KeywordTexts) =>
                   matchLittleIdentifier(it) # "nil"

C10_Witness ==
    /\ Len(delivered) >= 3
    /\ delivered[1].Kind = ItemEnd
    /\ delivered[3].Kind = ItemIdentifier
    /\ delivered[3].Value = <<69, 110, 100>>            \* "End"

\* The offset after the item Sent[i] (0 for i = 0).
EndOf(i) == IF i = 0 THEN 0 ELSE Sent[i].Pos + Len(Sent[i].Value)

\* The bytes g make no item: blanks, then possibly a comment, which goes
\* on to the end of g and holds no line terminator.
Skipped(g) ==
    \/ \A k \in 1..Len(g) : isSpace(g[k])
    \/ \E k \in 1..(Len(g) - 1) :
           /\ \A j \in 1..(k - 1) : isSpace(g[j])
           /\ g[k] = 47 /\ g[k + 1] = 47
           /\ \A j \in (k + 2)..Len(g) : ~isEol(g[j])

\* C17: the Pos of an item is the offset of its first character.  An item
\* other than ItemError has for Value the bytes of the input from Pos on;
\* they are not empty, but for ItemEof, whose Pos is the length of the
\* input.  The Pos of an ItemError is the offset where the lexeme it is
\* about starts: the character that is not recognized, or the number.  The
\* bytes between an item and the one before make no item.
C17_PosIsFirstByte ==
    \A i \in 1..Len(Sent) :
        LET it == Sent[i]
        IN  /\ EndOf(i - 1) <= it.Pos /\ it.Pos <= Len(l.input)
            /\ Skipped(Slice(l.input, EndOf(i - 1), it.Pos))
            /\ it.Kind # ItemError =>
                   /\ it.Pos + Len(it.Value) <= Len(l.input)
                   /\ it.Value = Slice(l.input, it.Pos, it.Pos + Len(it.Value))
                   /\ (it.Value = <<>>) <=> (it.Kind = ItemEof)
            /\ it.Kind = ItemEof => closed /\ it.Pos = Len(l.input)
            /\ it.Kind = ItemError =>
                   /\ it.Pos < Len(l.input)
                   /\ IF it.Value[1] = "unrecognized character: %#U"
                      THEN it.Value[2] = DecodeRune(l.input, it.Pos)[1]
                      ELSE /\ it.Value[1] = "bad number syntax: %q"
                           /\ At(l.input, it.Pos) \in Digits
                           /\ it.Value[2] =
                                  Slice(l.input, it.Pos, it.Pos + Len(it.Value[2]))

C17_Witness ==
    /\ driver = "done"
    /\ Len(delivered) = 2
    /\ delivered[2].Kind = ItemError
    /\ delivered[2].Pos > EndOf(1)

\* Offset k of the input lies in a comment: a "//" starts at an offset
\* before k, with no line terminator from there to k.
InComment(k) ==
    \E j \in 0..(k - 1) :
        /\ At(l.input, j) = 47 /\ At(l.input, j + 1) = 47
        /\ \A m \in j..(k - 1) : At(l.input, m) \notin {10, 13}

\* The characters that start or make an item, or separate two.
Recognized == {32, 9, 13, 10, 91, 93, 46, 58} \cup Letters \cup Digits

\* The offsets, outside a comment, of a character that is not recognized:
\* a byte that is none of the recognized ones and is not the '/' that,
\* with the '/' after it, starts a comment.  A '/' that ends a text which
\* may still go on is not decided yet.
Unrecognized ==
    { k \in 0..(Len(l.input) - 1) :
        /\ At(l.input, k) \notin Recognized
        /\ ~InComment(k)
        /\ At(l.input, k) = 47 =>
               IF k + 1 < Len(l.input) THEN At(l.input, k + 1) # 47 ELSE closed }

FirstUnrecognized == CHOOSE k \in Unrecognized : \A j \in Unrecognized : k <= j

\* C22: the first character outside a comment that is not recognized ends
\* the items: the lexer sends one ItemError for it, with the offset and the
\* code point of that character, as its last item, and sends that item for
\* no other character (the one other ItemError is that of a number before
\* it); a text without such a character gets no such item.  The bytes of
\* an identifier or keyword are ASCII letters and digits, and a character
\* in a comment ends nothing.
C22_UnrecognizedCharacter ==
    /\ \A i \in 1..Len(Sent) :
           /\ (Sent[i].Kind = ItemError
                 /\ Sent[i].Value[1] = "unrecognized character: %#U") =>
                  /\ Unrecognized # {}
                  /\ Sent[i].Pos = FirstUnrecognized
                  /\ Sent[i].Value[2] = DecodeRune(l.input, Sent[i].Pos)[1]
                  /\ i = Len(Sent)
           /\ Sent[i].Kind \notin {ItemError, ItemEof} =>
                  /\ Sent[i].Pos + Len(Sent[i].Value) <=
                         IF Unrecognized = {} THEN Len(l.input)
                         ELSE FirstUnrecognized
                  /\ Sent[i].Kind \in {ItemIdentifier} \cup {w[2] : w \in Keywords} =>
                         \A k \in 1..Len(Sent[i].Value) :
                             Sent[i].Value[k] \in Letters \cup Digits
    /\ (l.state = "nil" /\ Unrecognized # {}) =>
           /\ Last(Sent).Kind = ItemError
           /\ Last(Sent).Pos <= FirstUnrecognized
           /\ Last(Sent).Pos < FirstUnrecognized =>
                  Last(Sent).Value[1] = "bad number syntax: %q"

\* "a" and the e with the acute accent: the identifier, then the ItemError
\* for U+00E9 at offset 1.
C22_Witness ==
    /\ driver = "done"
    /\ Len(delivered) = 2
    /\ delivered[1].Kind = ItemIdentifier
    /\ delivered[1].Value = <<97>>
    /\ delivered[2].Kind = ItemError
    /\ delivered[2].Pos = 1
    /\ delivered[2].Value = <<"unrecognized character: %#U", 233>>

\* Offset k lies in the span of an item sent.
InItem(k) ==
    \E i \in 1..Len(Sent) :
        /\ Sent[i].Kind # ItemError
        /\ Sent[i].Pos <= k /\ k < Sent[i].Pos + Len(Sent[i].Value)

\* C30: the items are sent in strictly increasing order of offset and
\* their spans do not overlap; each byte before the item sent last that is
\* in the span of no item is a space, a tab, or a byte of a comment: one
\* of the two of "//" or a byte after them on the line, the line
\* terminator excluded.
C30_NothingDropped ==
    /\ \A i \in 2..Len(Sent) :
           /\ Sent[i - 1].Pos < Sent[i].Pos
           /\ Sent[i - 1].Pos + Len(Sent[i - 1].Value) <= Sent[i].Pos
    /\ Sent # <<>> =>
           \A k \in 0..(Last(Sent).Pos - 1) :
               \/ InItem(k)
               \/ At(l.input, k) \in {32, 9}
               \/ /\ At(l.input, k) = 47
                  /\ k + 1 < Len(l.input)
                  /\ At(l.input, k + 1) = 47
               \/ InComment(k) /\ At(l.input, k) \notin {10, 13}

\* "a//": the identifier, and the end of input after the comment.
C30_Witness ==
    /\ driver = "done"
    /\ l.input = <<97, 47, 47>>
    /\ Len(delivered) = 2
    /\ delivered[1].Pos = 0
    /\ delivered[2].Kind = ItemEof
    /\ delivered[2].Pos = 3

---------------------------------------------------------------------------
(* The grammar, as the automaton that reads the kinds of the items of a    *)
(* text:                                                                   *)
(*   { EOL | package_decl | type_alias | enum_decl | choice_decl |         *)
(*     message_decl } EOF                                                  *)
(*   package_decl := 'package' Identifier EOL                              *)
(*   type_alias   := 'type' CapIdent [ArraySpec] BasicType EOL             *)
(*   enum_decl    := 'enum' CapIdent EOL { Number ':' CapIdent EOL } 'end' *)
(*   choice_decl  := 'choice' CapIdent EOL                                 *)
(*                       { Number ':' QualifiedTypeRef EOL } 'end'         *)
(*   message_decl := 'message' CapIdent EOL { Number ':' LowerIdent        *)
(*                       [ArraySpec] (BasicType | QualifiedTypeRef) EOL }  *)
(*                       'end'                                             *)
(*   ArraySpec := '[' [Number] ']'                                         *)
(*   QualifiedTypeRef := CapIdent | Identifier '.' CapIdent                *)
(* It starts in "top", accepts in "accept", and is in "reject" once no     *)
(* text that starts with the items read matches the grammar.               *)

GClass(item) ==
    CASE item.Kind = ItemError -> "error"
      [] item.Kind = ItemIdentifier ->
             IF item.Value[1] \in 65..90 THEN "Cap" ELSE "low"
      [] item.Kind = ItemNumber -> "num"
      [] item.Kind = ItemEol -> "eol"
      [] item.Kind = ItemEof -> "eof"
      [] item.Kind = ItemLeftBracket -> "["
      [] item.Kind = ItemRightBracket -> "]"
      [] item.Kind = ItemDot -> "."
      [] item.Kind = ItemColon -> ":"
      [] item.Kind = ItemChoice -> "choice"
      [] item.Kind = ItemEnd -> "end"
      [] item.Kind = ItemEnum -> "enum"
      [] item.Kind = ItemMessage -> "message"
      [] item.Kind = ItemPackage -> "package"
      [] item.Kind = ItemType -> "type"
      [] item.Kind \in { k[2] : k \in BasicTypeNames } -> "basic"
      [] OTHER -> "error"

GTrans ==
    {
      <<"top", "eol", "top">>, <<"top", "package", "pkg1">>,
      <<"top", "type", "ty1">>, <<"top", "enum", "en1">>,
      <<"top", "choice", "ch1">>, <<"top", "message", "ms1">>,
      <<"top", "eof", "accept">>, <<"pkg1", "Cap", "pkg2">>,
      <<"pkg1", "low", "pkg2">>, <<"pkg2", "eol", "top">>,
      <<"ty1", "Cap", "ty2">>, <<"ty2", "[", "ty3">>,
      <<"ty2", "basic", "ty6">>, <<"ty3", "num", "ty4">>,
      <<"ty3", "]", "ty5">>, <<"ty4", "]", "ty5">>,
      <<"ty5", "basic", "ty6">>, <<"ty6", "eol", "top">>,
      <<"en1", "Cap", "en2">>, <<"en2", "eol", "enB">>,
      <<"enB", "num", "en3">>, <<"enB", "end", "top">>,
      <<"en3", ":", "en4">>, <<"en4", "Cap", "en5">>,
      <<"en5", "eol", "enB">>, <<"ch1", "Cap", "ch2">>,
      <<"ch2", "eol", "chB">>, <<"chB", "num", "ch3">>,
      <<"chB", "end", "top">>, <<"ch3", ":", "ch4">>,
      <<"ch4", "Cap", "chC">>, <<"ch4", "low", "chL">>,
      <<"chC", ".", "ch6">>, <<"chC", "eol", "chB">>, <<"chL", ".", "ch6">>,
      <<"ch6", "Cap", "ch7">>, <<"ch7", "eol", "chB">>,
      <<"ms1", "Cap", "ms2">>, <<"ms2", "eol", "msB">>,
      <<"msB", "num", "ms3">>, <<"msB", "end", "top">>,
      <<"ms3", ":", "ms4">>, <<"ms4", "low", "ms5">>, <<"ms5", "[", "ms6">>,
      <<"ms6", "num", "ms7">>, <<"ms6", "]", "ms8">>, <<"ms7", "]", "ms8">>,
      <<"ms5", "basic", "ms9">>, <<"ms5", "Cap", "msC">>,
      <<"ms5", "low", "msL">>, <<"ms8", "basic", "ms9">>,
      <<"ms8", "Cap", "msC">>, <<"ms8", "low", "msL">>,
      <<"msC", ".", "ms10">>, <<"msC", "eol", "msB">>,
      <<"msL", ".", "ms10">>, <<"ms10", "Cap", "ms9">>,
      <<"ms9", "eol", "msB">>
    }

GStep(state, class) ==
    LET to == { t[3] : t \in { u \in GTrans : u[1] = state /\ u[2] = class } }
    IN  IF to = {} THEN "reject" ELSE CHOOSE x \in to : TRUE

RECURSIVE GRunFrom(_, _)
GRunFrom(state, its) ==
    IF its = <<>> THEN state
    ELSE GRunFrom(GStep(state, GClass(Head(its))), Tail(its))

\* The state of the automaton after the items its.
GRun(its) == GRunFrom("top", its)

\* The states inside an enum, choice or message block: after the keyword
\* that opens it and before the 'end' that closes it.
GInBlock ==
    { "en1", "en2", "enB", "en3", "en4", "en5",
      "ch1", "ch2", "chB", "ch3", "ch4", "chC", "chL", "ch6", "ch7",
      "ms1", "ms2", "msB", "ms3", "ms4", "ms5", "ms6", "ms7", "ms8", "ms9",
      "msC", "msL", "ms10" }

AllButLast(s) == SubSeq(s, 1, Len(s) - 1)

Returned == parser.status = "returned"

---------------------------------------------------------------------------
(* Properties of ParseText on a fresh Parser (Spec). *)

Sha1Text == <<116, 121, 112, 101, 32, 83, 104, 97, 49, 32, 91, 50, 48, 93, 98, 121, 116, 101, 10>>

Kinds(its) == [i \in 1..Len(its) |-> its[i].Kind]

\* What a call of ParseText leaves its caller with, besides ok: the texts
\* of the diagnostics' items, of the Parser's two items and of its package.
ValuesHanded ==
    {parser.prev.Value, parser.next.Value, parser.pkg} \cup
    { parser.errors[i].item.Value : i \in 1..Len(parser.errors) }

Sha1Kinds ==
    <<ItemType, ItemIdentifier, ItemLeftBracket, ItemNumber, ItemRightBracket,
      ItemByte, ItemEol, ItemEof>>

FirstErrorAt ==
    CHOOSE i \in 1..Len(delivered) :
        /\ delivered[i].Pos = parser.errors[1].item.Pos
        /\ delivered[i].Kind = parser.errors[1].item.Kind

C5_CursorPinned ==
    /\ parser.status = "blocked" =>
           /\ delivered # <<>> => ~Terminal(Last(delivered))
           /\ ~(l.state = "nil" /\ items = <<>>)
    /\ \A i \in 1..Len(delivered) :
           Terminal(delivered[i]) =>
               /\ i = Len(delivered)
               /\ Returned
               /\ delivered[i].Kind = ItemError => ~ok(parser)

C5_Witness ==
    /\ Returned
    /\ Len(delivered) >= 3
    /\ Last(delivered).Kind = ItemError
    /\ l.state = "nil"

\* C6 as stated: a text whose only defect is one lexical error (its items
\* before the error item start a text of the grammar) gets exactly one
\* diagnostic.
C6_OneDiagnosticPerLexicalError ==
    (/\ Returned
     /\ Last(delivered).Kind = ItemError
     /\ GRun(AllButLast(delivered)) # "reject") => Len(parser.errors) = 1

\* C7: when the end of input is pulled inside an enum, choice or message
\* block, ParseText returns with a diagnostic and ok = false.
C7_UnterminatedBlock ==
    (/\ delivered # <<>>
     /\ Last(delivered).Kind = ItemEof
     /\ GRun(AllButLast(delivered)) \in GInBlock) =>
        /\ Returned
        /\ Len(parser.errors) >= 1
        /\ ~ok(parser)

C7_Witness ==
    /\ Returned
    /\ Last(delivered).Kind = ItemEof
    /\ GRun(AllButLast(delivered)) = "enB"
    /\ Len(delivered) >= 8

\* What is left to do: the chunks of text still to be decided, the bytes
\* the lexer has not yet put behind it, the state functions still to run
\* for the byte at hand, and the send still to be made for it.
Variant ==
    LET textLeft == (profile.max - revealed) + (IF closed THEN 0 ELSE 1)
        bytesLeft == Len(l.input) - l.start
        rank == CASE l.state = "nil" -> 0
                  [] l.state = "lexRoot" -> 4
                  [] OTHER -> 2
        idle == IF items = <<>> THEN 1 ELSE 0
    IN  100 * textLeft + 8 * bytesLeft + rank + idle

\* C8: ParseText returns, whatever the text, when the scheduler is fair to
\* the lexer goroutine and to the parser: until it has returned, the lexer
\* goroutine can run or the parser can receive the item the lexer is
\* sending (no deadlock, no panic), and every step of either takes the
\* pair closer to the end of the text (no divergence).
C8_ParseTextReturns ==
    /\ [](/\ parser.status \in {"blocked", "returned"}
          /\ parser.status = "blocked" => (LexerRunning \/ items # <<>>)
          /\ Variant >= 0)
    /\ [][Variant' < Variant]_vars

C8_Witness ==
    /\ Returned
    /\ ok(parser)
    /\ delivered[1].Kind = ItemEnum
    /\ Len(delivered) >= 9

NoPanic == parser.status # "panic"

\* C24: the channel holds at most one item, the one the lexer is blocked
\* sending; while it is there the lexer stands where it scanned it (start
\* at its first byte, pos after its last) and scans nothing more, until
\* the parser receives it; and the parser goes on only by receiving the
\* item the lexer is sending.
C24_SynchronousHandOff ==
    /\ [](/\ Len(items) <= 1
          /\ items # <<>> =>
                 /\ l.start = items[1].Pos
                 /\ items[1].Kind # ItemError =>
                        l.pos = items[1].Pos + Len(items[1].Value)
          /\ \A i \in 1..Len(delivered) :
                 delivered[i].Kind # ItemError =>
                     delivered[i].Pos + Len(delivered[i].Value) <= l.start)
    /\ [][/\ items # <<>> =>
                /\ l.pos' = l.pos /\ l.input' = l.input
                /\ \/ items' = items /\ delivered' = delivered
                   \/ items' = <<>> /\ delivered' = Append(delivered, items[1])
          /\ (delivered' # delivered \/ parser' # parser) =>
                 items # <<>> /\ delivered' = Append(delivered, items[1])]_vars

\* The item after the first two waits in the channel, with text left to
\* scan after it and the parser blocked in NextItem.
C24_Witness ==
    /\ items # <<>>
    /\ Len(delivered) = 2
    /\ parser.status = "blocked"
    /\ l.pos < Len(l.input)
    /\ lwait.next = "lexRoot"

\* The items of the text read so far, as the state functions give them
\* when they are run in turn by one thread, each up to its next item.
Sequential == RunLexer(NewLexerStruct(l.input), <<>>)

C27_LexerRunsToCompletion ==
    Returned => items = <<>>

\* C12 as stated: in a text accepted without diagnostics the item after
\* an 'end' is an end of line or the end of input.
C12_EndOnOwnLine ==
    (Returned /\ ok(parser)) =>
        \A i \in 1..(Len(delivered) - 1) :
            delivered[i].Kind = ItemEnd =>
                delivered[i + 1].Kind \in {ItemEol, ItemEof}

UpperFirst(item) == item.Kind = ItemIdentifier /\ item.Value[1] \in 65..90

LowerFirst(item) == item.Kind = ItemIdentifier /\ item.Value[1] \in 97..122

\* The block delivered[i] stands in: the kind of the last of 'enum',
\* 'choice', 'message' and 'end' before it (ItemEnd: in no block).
OpenBlock(i) ==
    LET ks == { j \in 1..(i - 1) :
                  delivered[j].Kind \in {ItemEnum, ItemChoice, ItemMessage, ItemEnd} }
    IN  IF ks = {} THEN ItemEnd
        ELSE delivered[CHOOSE j \in ks : \A k \in ks : k <= j].Kind

\* delivered[i] stands where the name of a field does: after a tag and ':'.
FieldNameAt(i) ==
    /\ i >= 3
    /\ delivered[i - 1].Kind = ItemColon
    /\ delivered[i - 2].Kind = ItemNumber

\* delivered[i] breaks a rule of capitalization: it follows 'type', 'enum',
\* 'choice' or 'message', or is the name of an enum field, and is not an
\* identifier that starts with A-Z; or it is the name of a message field
\* and is not an identifier that starts with a-z.
MisnamedAt(i) ==
    \/ /\ i >= 2
       /\ delivered[i - 1].Kind \in {ItemType, ItemEnum, ItemChoice, ItemMessage}
       /\ ~UpperFirst(delivered[i])
    \/ /\ FieldNameAt(i)
       /\ OpenBlock(i) = ItemEnum
       /\ ~UpperFirst(delivered[i])
    \/ /\ FieldNameAt(i)
       /\ OpenBlock(i) = ItemMessage
       /\ ~LowerFirst(delivered[i])

\* C13: no accepted text breaks a rule of capitalization; the item that
\* breaks one makes ParseText return at once with ok = false.
C13_NameCapitalization ==
    \A i \in 1..Len(delivered) :
        MisnamedAt(i) => Returned /\ ~ok(parser) /\ i = Len(delivered)

C13_Witness ==
    /\ Returned
    /\ ok(parser)
    /\ \E i \in 1..Len(delivered) :
           FieldNameAt(i) /\ OpenBlock(i) = ItemMessage /\ LowerFirst(delivered[i])
    /\ \E i \in 1..Len(delivered) :
           delivered[i].Kind = ItemEnd

KindAt(i) == IF i \in 1..Len(delivered) THEN delivered[i].Kind ELSE -1

\* delivered[i] stands where the type of a field does: after the tag and
\* ':' of a choice field, or after the name of a message field and its
\* array spec, if it has one.
TypeAt(i) ==
    \/ FieldNameAt(i) /\ OpenBlock(i) = ItemChoice
    \/ /\ OpenBlock(i) = ItemMessage
       /\ \/ FieldNameAt(i - 1)
          \/ /\ KindAt(i - 1) = ItemRightBracket
             /\ \/ KindAt(i - 2) = ItemLeftBracket /\ FieldNameAt(i - 3)
                \/ /\ KindAt(i - 2) = ItemNumber
                   /\ KindAt(i - 3) = ItemLeftBracket
                   /\ FieldNameAt(i - 4)

\* Identifier '.' CapIdent and the end of the line stand at i.
QualifiedAt(i) ==
    /\ KindAt(i) = ItemIdentifier
    /\ KindAt(i + 1) = ItemDot
    /\ KindAt(i + 2) = ItemIdentifier /\ UpperFirst(delivered[i + 2])
    /\ KindAt(i + 3) = ItemEol

\* CapIdent and the end of the line stand at i.
BareAt(i) ==
    /\ KindAt(i) = ItemIdentifier /\ UpperFirst(delivered[i])
    /\ KindAt(i + 1) = ItemEol

\* C14: in an accepted text the type of a choice field is a type reference
\* and that of a message field a basic type or a type reference, where a
\* type reference is Identifier '.' CapIdent, with an identifier of any
\* case and never a keyword before the '.', or one capitalized identifier.
\* The qualified form is taken whatever package declarations the text has;
\* a name after the '.' that is not capitalized, and an uncapitalized
\* identifier that no '.' follows, make ParseText return ok = false.
C14_TypeReferences ==
    \A i \in 1..Len(delivered) :
        TypeAt(i) =>
            /\ (Returned /\ ok(parser)) =>
                   \/ QualifiedAt(i)
                   \/ BareAt(i)
                   \/ /\ OpenBlock(i) = ItemMessage
                      /\ matchBasicType(delivered[i]) = "nil"
                      /\ KindAt(i + 1) = ItemEol
            /\ (QualifiedAt(i) /\ Len(delivered) = i + 3) =>
                   parser.errors = <<>>
            /\ (/\ KindAt(i) = ItemIdentifier /\ KindAt(i + 1) = ItemDot
                /\ i + 2 <= Len(delivered)
                /\ ~UpperFirst(delivered[i + 2])) => Returned /\ ~ok(parser)
            /\ (/\ KindAt(i) = ItemIdentifier /\ ~UpperFirst(delivered[i])
                /\ i + 1 <= Len(delivered)
                /\ KindAt(i + 1) # ItemDot) => Returned /\ ~ok(parser)

\* A text with no package declaration and a reference of the form a.A is
\* accepted.
C14_Witness ==
    /\ Returned
    /\ ok(parser)
    /\ \A i \in 1..Len(delivered) : delivered[i].Kind # ItemPackage
    /\ \E i \in 1..Len(delivered) :
           TypeAt(i) /\ QualifiedAt(i) /\ LowerFirst(delivered[i])

\* C15: a capitalized identifier where the name of a message field stands
\* makes ParseText return with exactly one diagnostic, "expected
\* uncapitalized identifier", for that identifier, at its line and column.
C15_CapitalizedFieldName ==
    \A i \in 1..Len(delivered) :
        (/\ FieldNameAt(i)
         /\ OpenBlock(i) = ItemMessage
         /\ UpperFirst(delivered[i])) =>
            /\ Returned
            /\ Len(parser.errors) = 1
            /\ parser.errors[1].item.Kind = ItemIdentifier
            /\ parser.errors[1].item.Pos = delivered[i].Pos
            /\ parser.errors[1].item.Value = delivered[i].Value
            /\ parser.errors[1].postfix = "expected uncapitalized identifier"
            /\ parser.errors[1].line = LineNumber(l, delivered[i])
            /\ parser.errors[1].column = ColumnNumber(l, delivered[i])

C15_Witness ==
    /\ Returned
    /\ Len(delivered) >= 6
    /\ GRun(AllButLast(delivered)) = "ms4"
    /\ FieldNameAt(Len(delivered))
    /\ OpenBlock(Len(delivered)) = ItemMessage
    /\ UpperFirst(Last(delivered))

\* The offset at which the line of the byte at pos starts.
RECURSIVE LineStart(_, _)
LineStart(input, pos) ==
    IF pos = 0 \/ isEol(At(input, pos - 1)) THEN pos
    ELSE LineStart(input, pos - 1)

\* The number of code points of the bytes s: the bytes that do not continue
\* an encoding.
RECURSIVE CodePoints(_)
CodePoints(s) ==
    IF s = <<>> THEN 0
    ELSE (IF Head(s) \in 128..191 THEN 0 ELSE 1) + CodePoints(Tail(s))

\* C16 as stated: for every item the parser is handed, LineNumber is 1 plus
\* the number of line terminators before the item's offset and ColumnNumber
\* is 1 plus the number of code points between the start of its line and
\* its offset; no diagnostic has a column of 0 or less.
C16_OneBasedLineAndColumn ==
    /\ \A i \in 1..Len(delivered) :
           LET item == delivered[i]
           IN  /\ LineNumber(l, item) =
                      1 + CountNewlines(Slice(l.input, 0, item.Pos))
               /\ ColumnNumber(l, item) =
                      1 + CodePoints(Slice(l.input,
                                           LineStart(l.input, item.Pos),
                                           item.Pos))
    /\ \A i \in 1..Len(parser.errors) : parser.errors[i].column >= 1

\* The first diagnostic is about the item where a type reference starts,
\* and that item is not an identifier.
NoLeadingIdentifier ==
    /\ parser.errors # <<>>
    /\ TypeAt(FirstErrorAt)
    /\ delivered[FirstErrorAt].Kind # ItemIdentifier

\* The diagnostic e is about the item delivered[i].
About(e, i) ==
    /\ i \in 1..Len(delivered)
    /\ e.item.Kind = delivered[i].Kind
    /\ e.item.Pos = delivered[i].Pos

OffsetsRead(item) ==
    IF item.Kind = ItemEof
    THEN IF item.Pos > 0 THEN 0..(item.Pos - 1) ELSE {}
    ELSE 0..item.Pos

\* C29: no diagnostic is built by indexing outside the input.  ParseText
\* does not panic, and the item of every diagnostic, the lookahead or the
\* item consumed before it, has its offset in the input: LineNumber and
\* ColumnNumber read only offsets 0..len(input)-1 for it; the offset of an
\* ItemEof is len(input), and no offset is read for it in an empty input.
C29_DiagnosticsIndexInside ==
    /\ parser.status # "panic"
    /\ \A k \in 1..Len(parser.errors) :
           LET item == parser.errors[k].item
           IN  /\ OffsetsRead(item) \subseteq 0..(Len(l.input) - 1)
               /\ item.Kind = ItemEof => item.Pos = Len(l.input)
               /\ About(parser.errors[k], Len(delivered))
                  \/ About(parser.errors[k], Len(delivered) - 1)
                  \/ About(parser.errors[k], Len(delivered) - 2)

\* "choice A \n1 :" and the end of input: the diagnostic about the ItemEof
\* and the one about the ':' consumed before it.
C29_Witness ==
    /\ Returned
    /\ Len(parser.errors) = 2
    /\ parser.errors[1].item.Kind = ItemEof
    /\ parser.errors[1].item.Pos = Len(l.input)
    /\ parser.errors[2].item.Kind = ItemColon

---------------------------------------------------------------------------
(* Properties of ParseText on the text of a whole file (SpecFile). *)

\* "enum Color\n    1: Red\nend\n"
EnumText ==
    <<101, 110, 117, 109, 32, 67, 111, 108, 111, 114, 10,
      32, 32, 32, 32, 49, 58, 32, 82, 101, 100, 10,
      101, 110, 100, 10>>

\* The lexer has read the byte at offset k: it lies before the end of the
\* last item sent.
ReadUpTo == IF Sent = <<>> THEN 0 ELSE EndOf(Len(Sent))

\* C18: an ItemEol is a maximal run of '\r' and '\n' characters, and every
\* such character the lexer has read lies in exactly one ItemEol; no item
\* holds or starts at a blank or a comment.  The items of
\* "enum Color\n    1: Red\nend\n" are enum, identifier Color, eol,
\* number 1, ':', identifier Red, eol, end, eol, eof.
C18_EolRunsAndBlanks ==
    /\ \A i \in 1..Len(Sent) :
           LET it == Sent[i]
           IN  /\ it.Kind = ItemEol =>
                      /\ it.Value # <<>>
                      /\ \A k \in 1..Len(it.Value) : isEol(it.Value[k])
                      /\ it.Value = Slice(l.input, it.Pos, EndOf(i))
                      /\ it.Pos > 0 => ~isEol(At(l.input, it.Pos - 1))
                      /\ EndOf(i) < Len(l.input) => ~isEol(At(l.input, EndOf(i)))
               /\ it.Kind \notin {ItemError, ItemEol} =>
                      \A k \in 1..Len(it.Value) :
                          ~isSpace(it.Value[k]) /\ ~isEol(it.Value[k])
                              /\ it.Value[k] # 47
    /\ \A k \in 0..(ReadUpTo - 1) :
           isEol(At(l.input, k)) =>
               Cardinality({ i \in 1..Len(Sent) :
                               /\ Sent[i].Kind = ItemEol
                               /\ Sent[i].Pos <= k /\ k < EndOf(i) }) = 1
    /\ (l.input = EnumText /\ l.state = "nil" /\ items = <<>>) =>
           /\ Kinds(delivered) =
                  <<ItemEnum, ItemIdentifier, ItemEol, ItemNumber, ItemColon,
                    ItemIdentifier, ItemEol, ItemEnd, ItemEol, ItemEof>>
           /\ delivered[2].Value = <<67, 111, 108, 111, 114>>   \* "Color"
           /\ delivered[4].Value = <<49>>                       \* "1"
           /\ delivered[6].Value = <<82, 101, 100>>             \* "Red"

C18_Witness == l.input = EnumText /\ l.state = "nil" /\ items = <<>>

\* The places of the 'package' items whose identifier the parser has
\* consumed: the item after the identifier has been pulled.
PackagesAt ==
    { i \in 1..(Len(delivered) - 2) :
        /\ delivered[i].Kind = ItemPackage
        /\ delivered[i + 1].Kind = ItemIdentifier }

\* The identifier of the last of them (empty when there is none).
LastPackage ==
    IF PackagesAt = {} THEN <<>>
    ELSE delivered[(CHOOSE i \in PackagesAt : \A j \in PackagesAt : j <= i) + 1].Value

\* C19: the package name of the Parser is the identifier of the last
\* package declaration read, in every state and so after ParseText; a
\* text of the grammar is accepted without a diagnostic however many
\* package declarations it has.
C19_LastPackageWins ==
    /\ parser.pkg = LastPackage
    /\ (Returned /\ GRun(delivered) = "accept") =>
           ok(parser) /\ parser.errors = <<>>

C19_Witness ==
    /\ Returned
    /\ ok(parser)
    /\ Cardinality(PackagesAt) = 2
    /\ delivered[2].Value = <<97>>                         \* "a"
    /\ parser.pkg = <<66, 99>>                             \* "Bc"

\* "type T [0]byte\n"
ZeroArrayType ==
    <<116, 121, 112, 101, 32, 84, 32, 91, 48, 93, 98, 121, 116, 101, 10>>

\* "message M\n1: a [0]T\nend\n"
ZeroArrayField ==
    <<109, 101, 115, 115, 97, 103, 101, 32, 77, 10,
      49, 58, 32, 97, 32, 91, 48, 93, 84, 10,
      101, 110, 100, 10>>

\* delivered[i] stands where an array spec may start: after the name of a
\* type alias or of a message field.
ArrayAt(i) ==
    \/ KindAt(i - 2) = ItemType /\ UpperFirst(delivered[i - 1])
    \/ /\ FieldNameAt(i - 1)
       /\ OpenBlock(i) = ItemMessage
       /\ LowerFirst(delivered[i - 1])

BodyLineAt(i) ==
    GRun(SubSeq(delivered, 1, i - 1)) \in {"enB", "chB", "msB"}

\* The number that the digits ds denote.
RECURSIVE Decimal(_)
Decimal(ds) ==
    IF ds = <<>> THEN 0
    ELSE 10 * Decimal(AllButLast(ds)) + (Last(ds) - 48)

\* C21 as stated: the tag of every field line of an accepted text is a
\* positive integer.
C21_PositiveTag ==
    (Returned /\ ok(parser)) =>
        \A i \in 1..Len(delivered) :
            (BodyLineAt(i) /\ delivered[i].Kind = ItemNumber) =>
                Decimal(delivered[i].Value) > 0

\* C21: in an enum, choice or message body a line that starts with
\* anything but a number or 'end' makes ParseText return with a diagnostic,
\* and so does a number that no ':' follows; a number of any value, zero
\* too, followed by ':' is taken without a diagnostic.
C21_TagAndColon ==
    \A i \in 1..Len(delivered) :
        BodyLineAt(i) =>
            /\ delivered[i].Kind \notin {ItemNumber, ItemEnd} =>
                   /\ Returned /\ ~ok(parser) /\ i = Len(delivered)
                   /\ parser.errors[1].item = delivered[i]
            /\ (/\ delivered[i].Kind = ItemNumber
                /\ Len(delivered) > i
                /\ delivered[i + 1].Kind # ItemColon) =>
                   /\ Returned /\ ~ok(parser) /\ i + 1 = Len(delivered)
                   /\ parser.errors[1].item = delivered[i + 1]
            /\ (delivered[i].Kind = ItemNumber /\ Len(delivered) = i) =>
                   parser.errors = <<>> /\ ~Returned
            /\ (/\ delivered[i].Kind = ItemNumber
                /\ KindAt(i + 1) = ItemColon
                /\ Len(delivered) = i + 1) => parser.errors = <<>>

C21_Witness ==
    /\ Returned
    /\ ok(parser)
    /\ delivered[1].Kind = ItemEnum
    /\ BodyLineAt(4)
    /\ delivered[4].Value = <<48>>                         \* "0"
    /\ delivered[8].Kind = ItemEnd

---------------------------------------------------------------------------
(* Properties of the primitives of the parser (SpecPrim). *)

\* The Parser q is the Parser p after one consume: the lookahead of p is
\* its previous item, and its lookahead is the item after it (the same
\* item when that is the end of input or a lexer error; when the lexer has
\* sent none yet, the call is blocked in NextItem).
ConsumedOne(p, q) ==
    /\ q.prev = p.next
    /\ IF p.next.Kind \in {ItemEof, ItemError}
       THEN q.next = p.next /\ q.rest = p.rest /\ q.status = p.status
       ELSE IF p.rest = <<>>
            THEN q.next = p.next /\ q.status = "blocked"
            ELSE q.next = Head(p.rest) /\ q.rest = Tail(p.rest)
                 /\ q.status = p.status

\* The lookahead of the Parser p matches the argument of the call c.
Matches(c, p) ==
    IF c.op \in {"accept", "expect"} THEN p.next.Kind = c.arg
    ELSE IF c.arg = "matchBigIdentifier" THEN UpperFirst(p.next)
    ELSE p.next.Kind \in { k[2] : k \in BasicTypeNames }

\* C26: a primitive returns true exactly when the lookahead matches, and
\* then consumes one item and appends no diagnostic; accept and acceptM
\* that fail leave the Parser as it is; expect and expectM that fail leave
\* the previous and the lookahead item as they are and append one
\* diagnostic, about the lookahead item.
C26_PrimitivesFrame ==
    [][LET c == driver'
       IN  c.op \in {"accept", "acceptM", "expect", "expectM"} =>
           /\ c.r <=> Matches(c, parser)
           /\ c.r => ConsumedOne(parser, parser') /\ parser'.errors = parser.errors
           /\ (~c.r /\ c.op \in {"accept", "acceptM"}) => parser' = parser
           /\ (~c.r /\ c.op \in {"expect", "expectM"}) =>
                  /\ parser'.prev = parser.prev
                  /\ parser'.next = parser.next
                  /\ parser'.rest = parser.rest
                  /\ parser'.status = parser.status
                  /\ Len(parser'.errors) = Len(parser.errors) + 1
                  /\ AllButLast(parser'.errors) = parser.errors
                  /\ Last(parser'.errors).item = parser.next]_vars

\* expect has failed twice on the same lookahead item, after a match.
C26_Witness ==
    /\ driver.op = "expect"
    /\ ~driver.r
    /\ Len(parser.errors) = 2
    /\ parser.errors[1].item = parser.next
    /\ parser.errors[2].item = parser.next
    /\ parser.prev.Kind = ItemType

---------------------------------------------------------------------------
(* Properties of one Parser that parses several files in turn (SpecMain). *)

\* C23 as stated: what a call of ParseText returns, and the package name
\* it leaves, are those of a fresh Parser given the same text.
C23_NothingCarriesOver ==
    Returned =>
        /\ ok(parser) = ok(ParseFile(l.input))
        /\ parser.errors = ParseFile(l.input).errors
        /\ parser.pkg = ParseFile(l.input).pkg

---------------------------------------------------------------------------
\* A line that holds only blanks and a comment: " \t// c\n".
CommentLine == <<32, 9, 47, 47, 32, 99, 10>>

\* The places of the text where such a line stands between two lines.
CommentLinesAt ==
    { i \in 1..(Len(l.input) - Len(CommentLine) - 1) :
        /\ At(l.input, i - 1) = 10
        /\ Slice(l.input, i, i + Len(CommentLine)) = CommentLine }

\* The text without the line that stands at i.
WithoutLineAt(i) ==
    Slice(l.input, 0, i) \o Slice(l.input, i + Len(CommentLine), Len(l.input))

\* C11 as stated: a text made by putting a line of blanks and a comment
\* between two lines of a text that parses without diagnostics parses
\* without diagnostics too.
C11_CommentLinesInsignificant ==
    Returned =>
        \A i \in CommentLinesAt :
            LET p == ParseFile(WithoutLineAt(i))
            IN  (p.status = "returned" /\ ok(p)) => ok(parser)


=============================================================================
